---- MODULE Spec2Model ----
(***************************************************************************)
(* A model of src/from_parquet.rs: the conversion of decoded parquet      *)
(* fields (parquet::record::Field) into nu_protocol::Value, the decimal   *)
(* handling of parquet_decimal_to_value, and the row loop of              *)
(* from_parquet_bytes.                                                     *)
(*                                                                         *)
(* Machine integers wider than 31 bits are kept as big-endian byte        *)
(* sequences (two's complement for the signed types), arbitrary precision *)
(* integers (num_bigint::BigInt) as a sign and a little-endian base-256   *)
(* magnitude, and strings as sequences of one-character strings.          *)
(***************************************************************************)
EXTENDS Integers, Sequences, FiniteSets, TLC

\* Every Field and every Value is a record tagged by its variant.
KindOf(x) == x.kind

VARIABLES pc, bytes, opts, span, iter, vals, ret, field, value

vars == <<pc, bytes, opts, span, iter, vals, ret, field, value>>

(***************************************************************************)
(* Bounds of the model.                                                    *)
(***************************************************************************)
MaxRows == 2        \* rows the row iterator yields in one document
MaxLen == 2         \* elements of a list, entries of a map, columns of a group
MaxDepth == 2       \* groups, lists and maps nested around a flat one
MaxDecBytes == 2    \* leading bytes of a decimal's unscaled value
MaxScale == 3       \* scale of a decimal
BigScale == 19      \* a scale whose power of ten leaves the i64 range

(***************************************************************************)
(* Sequences and bytes.                                                    *)
(***************************************************************************)
Reverse(s) == [i \in 1..Len(s) |-> s[Len(s) + 1 - i]]

Zeros(n) == [i \in 1..n |-> 0]

RECURSIVE SeqsUpTo(_, _)
SeqsUpTo(S, n) ==
    IF n = 0 THEN {<<>>}
    ELSE LET shorter == SeqsUpTo(S, n - 1)
         IN  shorter \cup {Append(s, x) : s \in {t \in shorter : Len(t) = n - 1}, x \in S}

(***************************************************************************)
(* num_bigint: magnitudes are little-endian base-256 digit sequences       *)
(* without a leading (last) zero digit; zero is the empty sequence.        *)
(***************************************************************************)
RECURSIVE Trim(_)
Trim(m) ==
    IF m = <<>> THEN <<>>
    ELSE IF m[Len(m)] = 0 THEN Trim(SubSeq(m, 1, Len(m) - 1))
    ELSE m

RECURSIVE MulCarry(_, _, _)
MulCarry(m, k, c) ==
    IF m = <<>>
    THEN IF c = 0 THEN <<>> ELSE <<c % 256>> \o MulCarry(<<>>, k, c \div 256)
    ELSE LET t == m[1] * k + c
         IN  <<t % 256>> \o MulCarry(Tail(m), k, t \div 256)

MulSmall(m, k) == Trim(MulCarry(m, k, 0))

RECURSIVE DivModSmall(_, _)
DivModSmall(m, k) ==
    IF m = <<>> THEN [q |-> <<>>, r |-> 0]
    ELSE LET hi  == DivModSmall(Tail(m), k)
             cur == hi.r * 256 + m[1]
         IN  [q |-> <<cur \div k>> \o hi.q, r |-> cur % k]

DivSmall(m, k) == Trim(DivModSmall(m, k).q)

ModSmall(m, k) == DivModSmall(m, k).r

RECURSIVE AddCarry(_, _, _)
AddCarry(a, b, c) ==
    IF a = <<>> /\ b = <<>>
    THEN IF c = 0 THEN <<>> ELSE <<c>>
    ELSE LET x == IF a = <<>> THEN 0 ELSE a[1]
             y == IF b = <<>> THEN 0 ELSE b[1]
             t == x + y + c
         IN  <<t % 256>> \o AddCarry(IF a = <<>> THEN <<>> ELSE Tail(a),
                                     IF b = <<>> THEN <<>> ELSE Tail(b),
                                     t \div 256)

AddMag(a, b) == Trim(AddCarry(a, b, 0))

RECURSIVE MulMag(_, _)
MulMag(a, b) ==
    IF a = <<>> \/ b = <<>> THEN <<>>
    ELSE LET rest == MulMag(a, Tail(b))
         IN  AddMag(MulSmall(a, b[1]), IF rest = <<>> THEN <<>> ELSE <<0>> \o rest)

RECURSIVE Pow10(_)
Pow10(n) == IF n = 0 THEN <<1>> ELSE MulSmall(Pow10(n - 1), 10)

BigZero == [sign |-> 0, mag |-> <<>>]

BigOfMag(neg, m) == IF m = <<>> THEN BigZero ELSE [sign |-> IF neg THEN -1 ELSE 1, mag |-> m]

\* The two's complement of a little-endian byte sequence: invert, add one.
TwosComplement(le) ==
    LET inv == [i \in 1..Len(le) |-> 255 - le[i]]
        sum == AddCarry(inv, <<1>>, 0)
    IN  SubSeq(sum, 1, Len(le))

\* BigInt::from_signed_bytes_be
from_signed_bytes_be(data) ==
    IF data = <<>> THEN BigZero
    ELSE IF data[1] > 127
         THEN BigOfMag(TRUE, Trim(TwosComplement(Reverse(data))))
         ELSE BigOfMag(FALSE, Trim(Reverse(data)))

\* BigInt::pow on BigInt::from(10)
pow10(scale) == BigOfMag(FALSE, Pow10(scale))

Some(x) == [some |-> TRUE, v |-> x]

None == [some |-> FALSE]

\* The big-endian two's complement bytes of an i64 given by sign and magnitude.
I64Bytes(x) ==
    LET le == x.mag \o Zeros(8 - Len(x.mag))
    IN  Reverse(IF x.sign = -1 THEN TwosComplement(le) ELSE le)

\* to_i64 as a truncating cast: the low 64 bits, whatever the value.
to_i64_wrapping(x) ==
    LET le == SubSeq(x.mag \o Zeros(8), 1, 8)
    IN  Some(Reverse(IF x.sign = -1 THEN TwosComplement(le) ELSE le))

\* ToPrimitive::to_i64 for BigInt: Some when the value is within i64, None otherwise.
to_i64(x) ==
    IF \/ Len(x.mag) < 8
       \/ Len(x.mag) = 8 /\ x.mag[8] < 128
       \/ x.sign = -1 /\ x.mag = Zeros(7) \o <<128>>
    THEN Some(I64Bytes(x))
    ELSE None

DigitChar(d) == <<"0", "1", "2", "3", "4", "5", "6", "7", "8", "9">>[d + 1]

RECURSIVE DecimalDigits(_)
DecimalDigits(m) ==
    IF m = <<>> THEN <<>>
    ELSE Append(DecimalDigits(DivSmall(m, 10)), DigitChar(ModSmall(m, 10)))

\* BigUint::to_str_radix(10)
to_str_radix10(m) == IF m = <<>> THEN <<"0">> ELSE DecimalDigits(m)

\* Display for BigInt
BigIntToString(x) == (IF x.sign = -1 THEN <<"-">> ELSE <<>>) \o to_str_radix10(x.mag)

(***************************************************************************)
(* num_rational::Ratio<BigInt> and bigdecimal::BigDecimal.                 *)
(***************************************************************************)
RECURSIVE StripCommon(_, _, _)
StripCommon(n, d, p) ==
    IF ModSmall(n, p) = 0 /\ ModSmall(d, p) = 0
    THEN StripCommon(DivSmall(n, p), DivSmall(d, p), p)
    ELSE [n |-> n, d |-> d]

\* Ratio::new for a denominator that is a power of ten: the greatest common
\* divisor has no prime factor but 2 and 5, and Ratio::reduce makes 0/d into 0/1.
RatioNew(numer, denom) ==
    IF numer.sign = 0 THEN [numer |-> BigZero, denom |-> BigOfMag(FALSE, <<1>>)]
    ELSE LET two  == StripCommon(numer.mag, denom.mag, 2)
             five == StripCommon(two.n, two.d, 5)
         IN  [numer |-> BigOfMag(numer.sign = -1, five.n), denom |-> BigOfMag(FALSE, five.d)]

\* Display for Ratio: "numer/denom", and "numer" alone when denom is one.
RatioToString(r) ==
    IF r.denom.mag = <<1>> THEN BigIntToString(r.numer)
    ELSE BigIntToString(r.numer) \o <<"/">> \o BigIntToString(r.denom)

\* BigDecimal::new
BigDecimalNew(int_val, scale) == [int_val |-> int_val, scale |-> scale]

Repeat(c, n) == [i \in 1..n |-> c]

\* Display for BigDecimal: the digits of the unscaled value with the point
\* `scale` digits from the right, zero-filled after "0." when they are too few.
BigDecimalToString(d) ==
    LET abs_int == to_str_radix10(d.int_val.mag)
        split   == IF d.scale >= Len(abs_int)
                   THEN [before |-> <<"0">>,
                         after  |-> Repeat("0", d.scale - Len(abs_int)) \o abs_int]
                   ELSE [before |-> SubSeq(abs_int, 1, Len(abs_int) - d.scale),
                         after  |-> SubSeq(abs_int, Len(abs_int) - d.scale + 1, Len(abs_int))]
        complete_without_sign ==
                   IF split.after # <<>> THEN split.before \o <<".">> \o split.after
                   ELSE split.before
    IN  (IF d.int_val.sign = -1 THEN <<"-">> ELSE <<>>) \o complete_without_sign

\* An f64 is kept as the number it stands for, a fraction in lowest terms.
\* Whether the libraries' to_f64 yields Some or None for a decimal is theirs to
\* decide: each decimal carries that outcome (has_f64) and both are explored.
RatioToF64(r, decimal) == IF decimal.has_f64 THEN Some(r) ELSE None

BigDecimalToF64(d, decimal) ==
    IF decimal.has_f64 THEN Some(RatioNew(d.int_val, pow10(d.scale))) ELSE None

(***************************************************************************)
(* nu_protocol::Value.                                                     *)
(***************************************************************************)
nothing(sp) == [kind |-> "Nothing", span |-> sp]

boolean(b, sp) == [kind |-> "Bool", val |-> b, span |-> sp]

int(i, sp) == [kind |-> "Int", val |-> i, span |-> sp]

float(f, sp) == [kind |-> "Float", val |-> f, span |-> sp]

string(s, sp) == [kind |-> "String", val |-> s, span |-> sp]

binary(b, sp) == [kind |-> "Binary", val |-> b, span |-> sp]

Date(dt, sp) == [kind |-> "Date", val |-> dt, span |-> sp]

record(cols, vs, sp) == [kind |-> "Record", cols |-> cols, vals |-> vs, span |-> sp]

list(vs, sp) == [kind |-> "List", vals |-> vs, span |-> sp]

\* Value::Error holding ShellError::CantConvert
CantConvert(to_type, from_type, sp, help) ==
    [kind |-> "Error", error |-> "CantConvert", to_type |-> to_type,
     from_type |-> from_type, span |-> sp, help |-> help]

\* A panic unwinding out of the conversion: no value is produced.
Panic(msg) == [kind |-> "panic", msg |-> msg]

IsPanic(v) == KindOf(v) = "panic"

\* The first panic raised while the elements of vs were produced in order.
FirstPanic(vs) == vs[CHOOSE i \in 1..Len(vs) : IsPanic(vs[i]) /\ \A j \in 1..(i - 1) : ~IsPanic(vs[j])]

AnyPanic(vs) == \E i \in 1..Len(vs) : IsPanic(vs[i])

(***************************************************************************)
(* chrono: a Duration is whole seconds and nanoseconds, a DateTime the day *)
(* number from 1970-01-01, the second of the day and the nanosecond.       *)
(***************************************************************************)
MAX_DAYS == 95026601     \* NaiveDate::MAX, 262143-12-31, in days from the epoch

MIN_DAYS == -96465659    \* NaiveDate::MIN, -262144-01-01, in days from the epoch

\* Floor division of a BigInt by a small positive number.
FloorDivMod(x, k) ==
    LET dm == DivModSmall(x.mag, k)
        q0 == Trim(dm.q)
    IN  IF x.sign >= 0 THEN [q |-> BigOfMag(FALSE, q0), r |-> dm.r]
        ELSE IF dm.r = 0 THEN [q |-> BigOfMag(TRUE, q0), r |-> 0]
        ELSE [q |-> BigOfMag(TRUE, AddMag(q0, <<1>>)), r |-> k - dm.r]

DurationDays(n) == [secs |-> BigOfMag(n.sign = -1, MulSmall(n.mag, 86400)), nanos |-> 0]

DurationMilliseconds(n) ==
    LET s == FloorDivMod(n, 1000)
    IN  [secs |-> s.q, nanos |-> s.r * 1000000]

DurationMicroseconds(n) ==
    LET ms == FloorDivMod(n, 1000)
        s  == FloorDivMod(ms.q, 1000)
    IN  [secs |-> s.q, nanos |-> (s.r * 1000 + ms.r) * 1000]

RECURSIVE MagToInt(_)
MagToInt(m) == IF m = <<>> THEN 0 ELSE m[1] + 256 * MagToInt(Tail(m))

InDayRange(d) ==
    \/ Len(d.mag) <= 3
    \/ /\ Len(d.mag) = 4
       /\ d.mag[4] < 128
       /\ IF d.sign = -1 THEN -MagToInt(d.mag) >= MIN_DAYS ELSE MagToInt(d.mag) <= MAX_DAYS

\* DateTime::default(): the Unix epoch at offset zero.
epoch == [days |-> 0, secs |-> 0, nanos |-> 0, offset |-> 0]

\* DateTime::checked_add_signed, from the epoch: None when the sum leaves the
\* range of dates.
checked_add_signed(duration) ==
    LET d == FloorDivMod(duration.secs, 86400)
    IN  IF InDayRange(d.q)
        THEN Some([days   |-> epoch.days + d.q.sign * MagToInt(d.q.mag),
                   secs   |-> d.r,
                   nanos  |-> duration.nanos,
                   offset |-> epoch.offset])
        ELSE None

\* Add<Duration> for DateTime, then Value::Date: the addition panics on overflow.
EpochAddDate(duration, sp) ==
    LET val == checked_add_signed(duration)
    IN  IF val.some THEN Date(val.v, sp) ELSE Panic("DateTime + Duration overflowed")

(***************************************************************************)
(* from_parquet.rs                                                         *)
(***************************************************************************)
parquet_decimal_to_bigdecimal(decimal) ==
    LET unscaled_value == from_signed_bytes_be(decimal.data)
    IN  BigDecimalNew(unscaled_value, decimal.scale)

\* The unscaled bytes read as an unsigned number: a negative value wraps around.
parquet_decimal_to_bigrational_unsigned(decimal) ==
    LET unscaled_value == BigOfMag(FALSE, Trim(Reverse(decimal.data)))
        scale          == decimal.scale
    IN  RatioNew(unscaled_value, pow10(scale))

parquet_decimal_to_bigrational(decimal) ==
    LET unscaled_value == from_signed_bytes_be(decimal.data)
        scale          == decimal.scale
    IN  RatioNew(unscaled_value, pow10(scale))

DECIMAL_HELP == "cannot convert decimal to float."

\* The names of the record built for a rational under extended_decimal.
RationalCols == <<"value", "numerator", "denominator", "text">>

\* The names of the record built for a BigDecimal under extended_decimal.
DecimalCols == <<"value", "text">>

\* The failed reduction given as Nothing instead of the error.
FloatOrErrorAsNothing(f64, sp) == IF f64.some THEN float(f64.v, sp) ELSE nothing(sp)

\* The tail of parquet_decimal_to_value: the f64, or the conversion error.
FloatOrError(f64, sp) ==
    IF f64.some THEN float(f64.v, sp)
    ELSE CantConvert("f64", "decimal", sp, Some(DECIMAL_HELP))

\* .map(|f| Value::float(f, span)).unwrap_or_else(|| Value::nothing(span))
FloatOrNothing(o, sp) == IF o.some THEN float(o.v, sp) ELSE nothing(sp)

\* .map(|i| Value::int(i, span)).unwrap_or_else(|| Value::nothing(span))
IntOrNothing(o, sp) == IF o.some THEN int(o.v, sp) ELSE nothing(sp)

ExtendedRational(rational, decimal, sp) ==
    LET val         == FloatOrNothing(RatioToF64(rational, decimal), sp)
        numerator   == IntOrNothing(to_i64(rational.numer), sp)
        denominator == IntOrNothing(to_i64(rational.denom), sp)
        text        == string(RatioToString(rational), sp)
    IN  record(RationalCols, <<val, numerator, denominator, text>>, sp)

ExtendedDecimal(bigdecimal, decimal, sp) ==
    LET val == FloatOrNothing(BigDecimalToF64(bigdecimal, decimal), sp)
    IN  record(DecimalCols, <<val, string(BigDecimalToString(bigdecimal), sp)>>, sp)

parquet_decimal_to_value(decimal, sp, o) ==
    IF o.rational
    THEN LET rational == parquet_decimal_to_bigrational(decimal)
         IN  IF o.extended_decimal
             THEN ExtendedRational(rational, decimal, sp)
             ELSE FloatOrError(RatioToF64(rational, decimal), sp)
    ELSE LET bigdecimal == parquet_decimal_to_bigdecimal(decimal)
         IN  IF o.extended_decimal
             THEN ExtendedDecimal(bigdecimal, decimal, sp)
             ELSE FloatOrError(BigDecimalToF64(bigdecimal, decimal), sp)

\* i16, i32 -> i64 (From): sign extension of the big-endian bytes.
SignExtend(b) == (IF b[1] > 127 THEN Repeat(255, 8 - Len(b)) ELSE Zeros(8 - Len(b))) \o b

\* u16, u32 -> i64 (From): zero extension.
ZeroExtend(b) == Zeros(8 - Len(b)) \o b

\* i8 as u8
ByteAsU8(b) == (b + 256) % 256

\* u64 as i64: the cast that never fails and wraps.
U64AsI64(l) == [ok |-> TRUE, v |-> l]

\* TryFrom<u64> for i64, with the error's Display text.
U64TryIntoI64(l) ==
    IF l[1] > 127
    THEN [ok |-> FALSE, e |-> "out of range integral type conversion attempted"]
    ELSE [ok |-> TRUE, v |-> l]

\* The ULong arm without the narrowing check.
ULongToValueWrapping(l, sp) == int(l, sp)

ULongToValue(l, sp) ==
    LET r == U64TryIntoI64(l)
    IN  IF r.ok THEN int(r.v, sp)
        ELSE CantConvert("i64", "u64", sp, Some(r.e))

\* A list that leaves out the elements that converted to an Error value.
ListOfDroppingErrors(vs, sp) ==
    IF AnyPanic(vs) THEN FirstPanic(vs)
    ELSE list(SelectSeq(vs, LAMBDA x : KindOf(x) # "Error"), sp)

\* Value::list over elements converted in order; a panic in one ends the call.
ListOf(vs, sp) == IF AnyPanic(vs) THEN FirstPanic(vs) ELSE list(vs, sp)

\* The [key, value] list of one map entry.
EntryOf(k, v, sp) == ListOf(<<k, v>>, sp)

\* Value::Record of a row's columns.
RecordOf(cols, vs, sp) == IF AnyPanic(vs) THEN FirstPanic(vs) ELSE record(cols, vs, sp)

RECURSIVE convert_to_nu(_, _, _)
convert_parquet_row(row, sp, o) ==
    LET cols == [i \in 1..Len(row) |-> row[i].name]
        vs   == [i \in 1..Len(row) |-> convert_to_nu(row[i].field, sp, o)]
    IN  RecordOf(cols, vs, sp)

convert_to_nu(f, sp, o) ==
    CASE f.kind = "Null"   -> nothing(sp)
      [] f.kind = "Bool"   -> boolean(f.v, sp)
      [] f.kind = "Byte"   -> binary(<<ByteAsU8(f.v)>>, sp)
      [] f.kind = "UByte"  -> binary(<<f.v>>, sp)
      [] f.kind = "Short"  -> int(SignExtend(f.v), sp)
      [] f.kind = "UShort" -> int(ZeroExtend(f.v), sp)
      [] f.kind = "Int"    -> int(SignExtend(f.v), sp)
      [] f.kind = "UInt"   -> int(ZeroExtend(f.v), sp)
      [] f.kind = "Long"   -> int(f.v, sp)
      [] f.kind = "ULong"  -> ULongToValue(f.v, sp)
      [] f.kind = "Float"  -> float(f.v, sp)
      [] f.kind = "Double" -> float(f.v, sp)
      [] f.kind = "Str"    -> string(f.v, sp)
      [] f.kind = "Bytes"  -> binary(f.v, sp)
      [] f.kind = "Date"   -> EpochAddDate(DurationDays(from_signed_bytes_be(f.v)), sp)
      [] f.kind = "TimestampMillis" ->
             EpochAddDate(DurationMilliseconds(from_signed_bytes_be(f.v)), sp)
      [] f.kind = "TimestampMicros" ->
             EpochAddDate(DurationMicroseconds(from_signed_bytes_be(f.v)), sp)
      [] f.kind = "Decimal" -> parquet_decimal_to_value(f.v, sp, o)
      [] f.kind = "Group"   -> convert_parquet_row(f.v, sp, o)
      [] f.kind = "ListInternal" ->
             ListOf([i \in 1..Len(f.v) |-> convert_to_nu(f.v[i], sp, o)], sp)
      [] f.kind = "MapInternal" ->
             ListOf([i \in 1..Len(f.v) |->
                        EntryOf(convert_to_nu(f.v[i].k, sp, o),
                                convert_to_nu(f.v[i].v, sp, o), sp)], sp)

\* A push that skips a row holding an Error value.
pushUnlessError(vs, row) ==
    IF \E j \in 1..Len(row.vals) : row.vals[j].kind = "Error" THEN vs ELSE Append(vs, row)

\* vals.push(row)
push(vs, row) == Append(vs, row)

(***************************************************************************)
(* The inputs: parquet::record::Field values.                              *)
(***************************************************************************)
F(kind, v) == [kind |-> kind, v |-> v]

Null == [kind |-> "Null"]

Col(name, f) == [name |-> name, field |-> f]

Entry(k, v) == [k |-> k, v |-> v]

I64_MAX == <<127, 255, 255, 255, 255, 255, 255, 255>>

I64_MIN == <<128, 0, 0, 0, 0, 0, 0, 0>>

I64_MINUS_ONE == <<255, 255, 255, 255, 255, 255, 255, 255>>

\* An f32 or f64 payload: the number it stands for.
Frac(n, d) == [numer |-> BigOfMag(n < 0, IF n < 0 THEN <<-n>> ELSE IF n = 0 THEN <<>> ELSE <<n>>),
               denom |-> BigOfMag(FALSE, <<d>>)]

IntegerFields ==
    {F("Byte", v) : v \in {-128, -1, 0, 127}}
    \cup {F("UByte", v) : v \in {0, 128, 255}}
    \cup {F("Short", v) : v \in {<<128, 0>>, <<255, 255>>, <<0, 5>>, <<127, 255>>}}
    \cup {F("UShort", v) : v \in {<<0, 5>>, <<128, 0>>, <<255, 255>>}}
    \cup {F("Int", v) : v \in {<<128, 0, 0, 0>>, <<255, 255, 255, 255>>, <<0, 0, 0, 5>>,
                               <<127, 255, 255, 255>>}}
    \cup {F("UInt", v) : v \in {<<0, 0, 0, 5>>, <<128, 0, 0, 0>>, <<255, 255, 255, 255>>}}
    \cup {F("Long", v) : v \in {I64_MIN, I64_MINUS_ONE, ZeroExtend(<<5>>), I64_MAX}}
    \cup {F("ULong", v) : v \in {Zeros(8), ZeroExtend(<<5>>), I64_MAX, I64_MIN,
                                 <<128, 0, 0, 0, 0, 0, 0, 1>>, I64_MINUS_ONE}}

PlainFields ==
    {Null, F("Bool", TRUE), F("Bool", FALSE)}
    \cup {F("Float", Frac(3, 2)), F("Float", Frac(-1, 4)), F("Double", Frac(0, 1)),
          F("Double", Frac(1, 8))}
    \cup {F("Str", <<>>), F("Str", <<"k">>), F("Str", <<"1", "/", "2">>)}
    \cup {F("Bytes", <<>>), F("Bytes", <<0, 255>>)}

TemporalFields ==
    {F("Date", v) : v \in {<<0, 0, 0, 0>>, <<0, 0, 0, 1>>, <<255, 255, 255, 255>>,
                           <<5, 169, 253, 169>>, <<5, 169, 253, 170>>,
                           <<250, 64, 13, 5>>, <<250, 64, 13, 4>>,
                           <<127, 255, 255, 255>>, <<128, 0, 0, 0>>}}
    \cup {F("TimestampMillis", v) : v \in
             {Zeros(8), <<0, 0, 0, 0, 0, 0, 5, 220>>, <<0, 0, 0, 0, 5, 38, 92, 1>>,
              I64_MINUS_ONE, <<0, 29, 43, 57, 16, 101, 23, 255>>,
              <<0, 29, 43, 57, 16, 101, 24, 0>>, <<255, 226, 99, 178, 12, 107, 204, 0>>,
              <<255, 226, 99, 178, 12, 107, 203, 255>>, I64_MAX, I64_MIN}}
    \cup {F("TimestampMicros", v) : v \in
             {Zeros(8), <<0, 0, 0, 0, 0, 22, 227, 97>>,
              <<255, 255, 255, 255, 255, 255, 255, 254>>, I64_MAX, I64_MIN}}

\* parquet::data_type::Decimal: the unscaled value's big-endian bytes and the
\* scale, with the outcome of the libraries' to_f64 for it.
Decimal(data, scale, has_f64) == [data |-> data, scale |-> scale, has_f64 |-> has_f64]

DecBytes == {0, 1, 100, 128, 255}

\* Zero bytes after the leading ones: with 7 and 8 of them the unscaled value
\* lies on either side of the ends of the i64 range.
DecPads == {0, 7, 8}

DecimalFields ==
    {F("Decimal", Decimal(lead \o Zeros(pad), scale, has_f64)) :
        lead \in SeqsUpTo(DecBytes, MaxDecBytes), pad \in DecPads,
        scale \in (0..MaxScale) \cup {BigScale}, has_f64 \in BOOLEAN}

Scalars == IntegerFields \cup PlainFields \cup TemporalFields \cup DecimalFields

\* The fields nested in groups, lists and maps.
Pool ==
    {F("Int", <<0, 0, 0, 5>>), Null, F("ULong", I64_MINUS_ONE), F("Str", <<"k">>),
     F("Decimal", Decimal(<<100>>, 2, FALSE)), F("Date", <<127, 255, 255, 255>>)}

Names == {"a", "b"}

Keys == {F("Str", <<"k">>), F("ULong", I64_MIN)}

FlatOver(S, n) ==
    {F("ListInternal", s) : s \in SeqsUpTo(S, n)}
    \cup {F("Group", s) : s \in SeqsUpTo({Col(nm, f) : nm \in Names, f \in S}, n)}
    \cup {F("MapInternal", s) : s \in SeqsUpTo({Entry(k, f) : k \in Keys, f \in S}, n)}

Wrap(f) ==
    {F("ListInternal", <<f>>), F("ListInternal", <<Null, f>>),
     F("Group", <<Col("a", f), Col("a", F("ULong", I64_MINUS_ONE))>>),
     F("MapInternal", <<Entry(F("Str", <<"k">>), f)>>)}

RECURSIVE Deep(_)
Deep(d) ==
    IF d = 0 THEN FlatOver(Pool, 1)
    ELSE UNION {Wrap(f) : f \in Deep(d - 1)}

Fields == Scalars \cup FlatOver(Pool, MaxLen) \cup UNION {Deep(d) : d \in 1..MaxDepth}

\* The rows an external row iterator yields.
RowSamples ==
    {<<Col("a", F("Int", <<0, 0, 0, 5>>)), Col("b", Null)>>,
     <<Col("a", F("ULong", I64_MINUS_ONE)), Col("a", F("Int", <<0, 0, 0, 5>>))>>,
     <<Col("d", F("Decimal", Decimal(<<100>>, 2, FALSE))), Col("s", F("Str", <<"k">>))>>,
     <<Col("d", F("Decimal", Decimal(<<100>>, 2, TRUE)))>>,
     <<Col("t", F("Date", <<127, 255, 255, 255>>)), Col("b", Null)>>,
     <<Col("n", F("ListInternal", <<F("ULong", I64_MINUS_ONE), Null>>)),
       Col("m", F("MapInternal", <<Entry(F("Str", <<"k">>),
                                         F("Decimal", Decimal(<<255>>, 1, FALSE)))>>))>>}

\* What the bytes decode to: whether SerializedFileReader::new and get_row_iter
\* succeed, and the rows then read.
Documents ==
    {[reader_ok |-> TRUE, iter_ok |-> TRUE, rows |-> rows] : rows \in SeqsUpTo(RowSamples, MaxRows)}
    \cup {[reader_ok |-> FALSE, iter_ok |-> FALSE, rows |-> <<>>],
          [reader_ok |-> TRUE, iter_ok |-> FALSE, rows |-> <<>>]}

Opts == [extended_decimal : BOOLEAN, rational : BOOLEAN]

Spans == {[start |-> 0, end |-> 7]}

(***************************************************************************)
(* from_parquet_bytes as a state machine.                                  *)
(***************************************************************************)
Init ==
    /\ pc = "start"
    /\ bytes \in Documents
    /\ opts \in Opts
    /\ span \in Spans
    /\ iter = None
    /\ vals = <<>>
    /\ ret = None
    /\ field = Null
    /\ value = None

\* SerializedFileReader::new(cursor).unwrap()
OpenReader ==
    /\ pc = "start"
    /\ pc' = IF bytes.reader_ok THEN "reader" ELSE "panicked"
    /\ UNCHANGED <<bytes, opts, span, iter, vals, ret, field, value>>

\* reader.get_row_iter(None).unwrap(), then vals = Vec::new()
GetRowIter ==
    /\ pc = "reader"
    /\ IF bytes.iter_ok
       THEN pc' = "loop" /\ iter' = Some(0)
       ELSE pc' = "panicked" /\ iter' = iter
    /\ vals' = <<>>
    /\ UNCHANGED <<bytes, opts, span, ret, field, value>>

\* One turn of the loop: iter.next() yields a record, which is converted and pushed.
NextRow ==
    /\ pc = "loop"
    /\ iter.v < Len(bytes.rows)
    /\ LET row == convert_parquet_row(bytes.rows[iter.v + 1], span, opts)
       IN  IF IsPanic(row)
           THEN pc' = "panicked" /\ vals' = vals
           ELSE pc' = "loop" /\ vals' = push(vals, row)
    /\ iter' = Some(iter.v + 1)
    /\ UNCHANGED <<bytes, opts, span, ret, field, value>>

\* iter.next() yields None: Value::List { vals, span } is returned.
Return ==
    /\ pc = "loop"
    /\ iter.v = Len(bytes.rows)
    /\ ret' = Some(list(vals, span))
    /\ pc' = "done"
    /\ UNCHANGED <<bytes, opts, span, iter, vals, field, value>>

Next == OpenReader \/ GetRowIter \/ NextRow \/ Return

Spec == Init /\ [][Next]_vars

(***************************************************************************)
(* convert_to_nu applied to one field.                                     *)
(***************************************************************************)
InitField ==
    /\ pc = "convert"
    /\ bytes = [reader_ok |-> TRUE, iter_ok |-> TRUE, rows |-> <<>>]
    /\ opts \in Opts
    /\ span \in Spans
    /\ iter = None
    /\ vals = <<>>
    /\ ret = None
    /\ field \in Fields
    /\ value = None

ConvertField ==
    /\ pc = "convert"
    /\ ~value.some
    /\ value' = Some(convert_to_nu(field, span, opts))
    /\ UNCHANGED <<pc, bytes, opts, span, iter, vals, ret, field>>

NextField == ConvertField

SpecField == InitField /\ [][NextField]_vars

(***************************************************************************)
(* Reading values back as numbers, for the statements below.               *)
(***************************************************************************)
Front(q) == SubSeq(q, 1, Len(q) - 1)

RECURSIVE LessMag(_, _)
LessMag(a, b) ==
    IF Len(a) # Len(b) THEN Len(a) < Len(b)
    ELSE IF a = <<>> THEN FALSE
    ELSE IF a[Len(a)] # b[Len(b)] THEN a[Len(a)] < b[Len(b)]
    ELSE LessMag(Front(a), Front(b))

\* 2^63 as a magnitude.
TwoTo63 == Zeros(7) \o <<128>>

\* The number an unsigned big-endian byte sequence stands for.
Unsigned(b) == BigOfMag(FALSE, Trim(Reverse(b)))

FitsI64(x) == IF x.sign = -1 THEN ~LessMag(TwoTo63, x.mag) ELSE LessMag(x.mag, TwoTo63)

DigitVal(c) == CHOOSE d \in 0..9 : DigitChar(d) = c

\* The digits are taken most significant first; each step's value is computed
\* before the next digit is read.
RECURSIVE DigitsInto(_, _)
DigitsInto(acc, cs) ==
    IF cs = <<>> THEN acc
    ELSE LET next == AddMag(MulSmall(acc, 10), Trim(<<DigitVal(cs[1])>>))
         IN  IF next = <<>> THEN DigitsInto(<<>>, Tail(cs)) ELSE DigitsInto(next, Tail(cs))

DigitsToMag(cs) == DigitsInto(<<>>, cs)

ParseInt(cs) ==
    LET neg == cs # <<>> /\ cs[1] = "-"
    IN  BigOfMag(neg, DigitsToMag(IF neg THEN Tail(cs) ELSE cs))

IndexOf(cs, c) ==
    IF \E i \in 1..Len(cs) : cs[i] = c
    THEN CHOOSE i \in 1..Len(cs) : cs[i] = c /\ \A j \in 1..(i - 1) : cs[j] # c
    ELSE 0

\* "-12.345" is read as the unscaled value -12345 with 3 fractional digits.
ParseDecimal(cs) ==
    LET p == IndexOf(cs, ".")
    IN  IF p = 0 THEN [unscaled |-> ParseInt(cs), frac |-> 0]
        ELSE [unscaled |-> ParseInt(SubSeq(cs, 1, p - 1) \o SubSeq(cs, p + 1, Len(cs))),
              frac     |-> Len(cs) - p]

\* "n/d" is read as n over d, and "n" as n over 1.
ParseRatio(cs) ==
    LET p == IndexOf(cs, "/")
    IN  IF p = 0 THEN [n |-> ParseInt(cs), d |-> BigOfMag(FALSE, <<1>>)]
        ELSE [n |-> ParseInt(SubSeq(cs, 1, p - 1)), d |-> ParseInt(SubSeq(cs, p + 1, Len(cs)))]

Converted == value.some /\ ~IsPanic(value.v)

IsDecimal == field.kind = "Decimal"

Unscaled == from_signed_bytes_be(field.v.data)

\* n / d = unscaled / 10^scale
SameNumber(n, d, unscaled, scale) ==
    /\ MulMag(n.mag, Pow10(scale)) = MulMag(unscaled.mag, d.mag)
    /\ n.sign = unscaled.sign

\* rec is the Record of row: its names in order, each value the conversion of
\* that column's field alone.
RowConverted(row, rec) ==
    /\ rec.kind = "Record"
    /\ Len(rec.cols) = Len(row)
    /\ Len(rec.vals) = Len(row)
    /\ \A j \in 1..Len(row) :
          /\ rec.cols[j] = row[j].name
          /\ rec.vals[j] = convert_to_nu(row[j].field, span, opts)

(***************************************************************************)
(* C1: a field converting to an Error value does not abort or truncate     *)
(* the document: while rows are read and at the return, vals holds one     *)
(* Record per row read, in row order, whose i-th column has the i-th name  *)
(* and the value its field converts to on its own; the returned List is    *)
(* that sequence for all the rows; and the loop stops early only on a      *)
(* column whose own conversion panics, never on an Error value.            *)
(***************************************************************************)
C1_ErrorsDoNotAbort ==
    /\ pc \in {"loop", "done"} =>
          /\ Len(vals) = iter.v
          /\ \A i \in 1..Len(vals) : RowConverted(bytes.rows[i], vals[i])
    /\ pc = "done" => ret = Some(list(vals, span)) /\ Len(ret.v.vals) = Len(bytes.rows)
    /\ (pc = "panicked" /\ iter.some) =>
          \E j \in 1..Len(bytes.rows[iter.v]) :
             IsPanic(convert_to_nu(bytes.rows[iter.v][j].field, span, opts))

\* A returned document whose first row holds an Error value and has a row after it.
C1_Witness ==
    /\ pc = "done"
    /\ Len(ret.v.vals) = 2
    /\ \E j \in 1..Len(ret.v.vals[1].vals) : ret.v.vals[1].vals[j].kind = "Error"
    /\ \E j \in 1..Len(ret.v.vals[2].vals) : ret.v.vals[2].vals[j].kind = "Int"

(***************************************************************************)
(* C2: a ULong v converts to Integer(v) when v <= 2^63 - 1 and to the      *)
(* CantConvert error from "u64" to "i64", with the narrowing failure's     *)
(* text, when v > 2^63 - 1; never to a wrapped or negative Integer.        *)
(***************************************************************************)
C2_ULongNarrowing ==
    (field.kind = "ULong" /\ value.some) =>
        IF LessMag(Unsigned(field.v).mag, TwoTo63)
        THEN /\ value.v.kind = "Int"
             /\ from_signed_bytes_be(value.v.val) = Unsigned(field.v)
        ELSE value.v = CantConvert("i64", "u64", span,
                                   Some("out of range integral type conversion attempted"))

C2_Witness ==
    /\ field = F("ULong", I64_MIN)
    /\ value.some
    /\ value.v.kind = "Error"

\* v mirrors f: the same number of elements in the same order, each the
\* conversion of its source element, at every depth.
RECURSIVE Preserved(_, _, _, _)
Preserved(f, v, sp, o) ==
    CASE f.kind = "Group" ->
            /\ v.kind = "Record"
            /\ Len(v.cols) = Len(f.v)
            /\ Len(v.vals) = Len(f.v)
            /\ \A i \in 1..Len(f.v) :
                  /\ v.cols[i] = f.v[i].name
                  /\ v.vals[i] = convert_to_nu(f.v[i].field, sp, o)
                  /\ Preserved(f.v[i].field, v.vals[i], sp, o)
      [] f.kind = "ListInternal" ->
            /\ v.kind = "List"
            /\ Len(v.vals) = Len(f.v)
            /\ \A i \in 1..Len(f.v) :
                  /\ v.vals[i] = convert_to_nu(f.v[i], sp, o)
                  /\ Preserved(f.v[i], v.vals[i], sp, o)
      [] f.kind = "MapInternal" ->
            /\ v.kind = "List"
            /\ Len(v.vals) = Len(f.v)
            /\ \A i \in 1..Len(f.v) :
                  /\ v.vals[i].kind = "List"
                  /\ Len(v.vals[i].vals) = 2
                  /\ v.vals[i].vals[1] = convert_to_nu(f.v[i].k, sp, o)
                  /\ v.vals[i].vals[2] = convert_to_nu(f.v[i].v, sp, o)
                  /\ Preserved(f.v[i].k, v.vals[i].vals[1], sp, o)
                  /\ Preserved(f.v[i].v, v.vals[i].vals[2], sp, o)
      [] OTHER -> TRUE

(***************************************************************************)
(* C3: nested conversion keeps cardinality and order at every depth: a     *)
(* Group gives a Record with the same names in the same order and the i-th *)
(* value the conversion of the i-th field, a ListInternal a List of the    *)
(* conversions in order, a MapInternal a List of [key, value] Lists in     *)
(* entry order; also when an element converts to an Error value.           *)
(***************************************************************************)
C3_NestedPreserved == Converted => Preserved(field, value.v, span, opts)

\* A list of two elements, the second a nested list holding an Error value.
C3_Witness ==
    /\ Converted
    /\ field.kind = "ListInternal"
    /\ Len(field.v) = 2
    /\ field.v[2].kind = "ListInternal"
    /\ Len(value.v.vals) = 2
    /\ Len(value.v.vals[2].vals) = 1
    /\ value.v.vals[2].vals[1].kind = "Error"

\* The variants of Value the conversion builds.
ValueKinds ==
    {"Nothing", "Bool", "Int", "Float", "String", "Binary", "Date", "Record", "List", "Error"}

(***************************************************************************)
(* C4: convert_to_nu is total and never crashes: every field, under every  *)
(* combination of the options, converts to a Value.                        *)
(***************************************************************************)
C4_Total == value.some => value.v.kind \in ValueKinds

(***************************************************************************)
(* C5: a call either fails at setup, before any row is read and with       *)
(* nothing returned, or runs over all the rows and returns one List: no    *)
(* failure occurs once the row iterator is obtained.                       *)
(***************************************************************************)
C5_TwoOutcomes ==
    /\ pc = "panicked" => ~iter.some /\ vals = <<>> /\ ~ret.some
    /\ pc = "done" => ret.some /\ ret.v.kind = "List" /\ Len(ret.v.vals) = Len(bytes.rows)

\* A Decimal converted without extended_decimal: a Float, or the error naming to_type.
C6_FloatOrErrorTo(to_type) ==
    (IsDecimal /\ ~opts.extended_decimal /\ value.some) =>
        IF field.v.has_f64
        THEN /\ value.v.kind = "Float"
             /\ SameNumber(value.v.val.numer, value.v.val.denom, Unscaled, field.v.scale)
        ELSE value.v = CantConvert(to_type, "decimal", span,
                                   Some("cannot convert decimal to float."))

(***************************************************************************)
(* C6, as amended: without extended_decimal, in both modes, a Decimal      *)
(* converts to a Float standing for unscaled / 10^scale when the float     *)
(* reduction succeeds and otherwise to the CantConvert error from          *)
(* "decimal" to "f64" with the fixed help text; never to Nothing or to a   *)
(* Record.                                                                 *)
(***************************************************************************)
C6_FloatOrErrorF64 == C6_FloatOrErrorTo("f64")

\* C6 as claimed: the same with the error naming the target type "float".
C6_FloatOrErrorFloat == C6_FloatOrErrorTo("float")

C6_Witness ==
    /\ IsDecimal
    /\ ~opts.extended_decimal
    /\ opts.rational
    /\ value.some
    /\ value.v.kind = "Error"

\* v is Integer(x) when x is within i64 and Nothing when it is not.
ComponentNarrowed(x, v) ==
    IF FitsI64(x)
    THEN v.kind = "Int" /\ from_signed_bytes_be(v.val) = x
    ELSE v = nothing(span)

ULongTooBig(f) == f.kind = "ULong" /\ ~LessMag(Unsigned(f.v).mag, TwoTo63)

\* At f's position and at every position below it, v holds an Error exactly
\* for a ULong above the i64 maximum and for a Decimal whose float reduction
\* fails (unless unless_extended).
RECURSIVE ErrorsWhere(_, _, _)
ErrorsWhere(f, v, unless_extended) ==
    /\ v.kind = "Error" <=>
          \/ ULongTooBig(f)
          \/ f.kind = "Decimal" /\ ~f.v.has_f64 /\ ~unless_extended
    /\ CASE f.kind = "Group" ->
               \A i \in 1..Len(f.v) : ErrorsWhere(f.v[i].field, v.vals[i], unless_extended)
         [] f.kind = "ListInternal" ->
               \A i \in 1..Len(f.v) : ErrorsWhere(f.v[i], v.vals[i], unless_extended)
         [] f.kind = "MapInternal" ->
               \A i \in 1..Len(f.v) :
                  /\ v.vals[i].kind # "Error"
                  /\ ErrorsWhere(f.v[i].k, v.vals[i].vals[1], unless_extended)
                  /\ ErrorsWhere(f.v[i].v, v.vals[i].vals[2], unless_extended)
         [] f.kind = "Decimal" /\ v.kind = "Record" ->
               \A i \in 1..Len(v.vals) : v.vals[i].kind # "Error"
         [] OTHER -> TRUE

(***************************************************************************)
(* C8, as amended: at every position of the output, at any depth, there is *)
(* an Error value if and only if the field there is a ULong above the i64  *)
(* maximum, or a Decimal whose float reduction fails converted without     *)
(* extended_decimal; no other field converts to an Error itself.           *)
(***************************************************************************)
C8_ErrorsIffNotExtended == Converted => ErrorsWhere(field, value.v, opts.extended_decimal)

\* C8 as claimed: an Error if and only if a ULong above the i64 maximum or a
\* Decimal whose float reduction fails, whatever the options.
C8_ErrorsIff == Converted => ErrorsWhere(field, value.v, FALSE)

\* An Error value for a Decimal inside a map, two levels down.
C8_Witness ==
    /\ Converted
    /\ field.kind = "ListInternal"
    /\ \E i \in 1..Len(field.v) :
          /\ field.v[i].kind = "MapInternal"
          /\ Len(field.v[i].v) = 1
          /\ field.v[i].v[1].v.kind = "Decimal"
          /\ value.v.vals[i].vals[1].vals[2].kind = "Error"

\* d divides a power of ten, so n/d is in lowest terms when 2 and 5 are not common.
LowestTerms(n, d) ==
    /\ ~(ModSmall(n.mag, 2) = 0 /\ ModSmall(d.mag, 2) = 0)
    /\ ~(ModSmall(n.mag, 5) = 0 /\ ModSmall(d.mag, 5) = 0)

(***************************************************************************)
(* C9: under extended_decimal the text column stands for unscaled /        *)
(* 10^scale in both modes: the BigDecimal text is the unscaled value with  *)
(* scale fractional digits, and the rational text is the fraction n/d in   *)
(* lowest terms with d > 0, n * 10^scale = unscaled * d and the sign of    *)
(* the unscaled value on n.                                                *)
(***************************************************************************)
C9_TextIsExactValue ==
    (IsDecimal /\ opts.extended_decimal /\ value.some) =>
        IF opts.rational
        THEN LET q == ParseRatio(value.v.vals[4].val)
             IN  /\ q.d.sign = 1
                 /\ SameNumber(q.n, q.d, Unscaled, field.v.scale)
                 /\ q.n.sign = 0 \/ LowestTerms(q.n, q.d)
                 /\ q.n.sign = 0 => q.d.mag = <<1>>
        ELSE LET t == ParseDecimal(value.v.vals[2].val)
             IN  /\ t.frac = field.v.scale
                 /\ t.unscaled = Unscaled

\* A negative unscaled value rendered as a fraction with a denominator above one.
C9_Witness ==
    /\ IsDecimal
    /\ opts.extended_decimal
    /\ opts.rational
    /\ value.some
    /\ Unscaled.sign = -1
    /\ IndexOf(value.v.vals[4].val, "/") > 0

(***************************************************************************)
(* C10: as documented on FromParquetOpts::extended_decimal, the record has *)
(* two fields (value, text) for a BigDecimal and three fields (numerator,  *)
(* denominator, text) for a rational.                                      *)
(***************************************************************************)
C10_DocumentedFields ==
    (IsDecimal /\ opts.extended_decimal /\ value.some) =>
        value.v.cols = IF opts.rational THEN <<"numerator", "denominator", "text">>
                       ELSE <<"value", "text">>

====
